---- MODULE Spec2Model ----
(***************************************************************************)
(* GeoMeet backend (src/app.py): the in-memory room registry with its      *)
(* create / join / push-location / list-locations handlers, and the venue  *)
(* search that fans out to the places provider and deduplicates.           *)
(***************************************************************************)
EXTENDS Integers, Sequences, FiniteSets, TLC

VARIABLES rooms, now, nops, resp, vin, vout, conc

vars == <<rooms, now, nops, resp, vin, vout, conc>>

-----------------------------------------------------------------------------
(* Bounds and value universes                                              *)

\* ticks of the wall clock in one run
MaxTime == 1
\* number of requests served in one run
MaxOps == 4
\* entries in the "locations" list of one venue search
MaxLocs == 2
\* place records in one provider response
MaxPlaces == 2

\* Python None for the numeric member fields lat, lon, timestamp
None == -1

\* outcomes of str(uuid.uuid4())[:6]
RoomIds == {"r1", "r2"}
\* "" stands for an empty or missing JSON field (falsy in Python)
ClientIds == {"u1", "u2"}
ClientArgs == ClientIds \cup {""}
Names == {"Ann", "Bob"}
NameArgs == Names \cup {""}
Passwords == {"", "pw"}
PasswordArgs == Passwords \cup {"bad"}
Coords == {1, 2}
CoordArgs == Coords \cup {None}

\* the (lat, lon) bodies a push request is sent with; None is a missing field
PushArgs == {<<1, 2>>, <<2, 1>>, <<None, None>>, <<1, None>>, <<None, 2>>}

NoResp == [op |-> "none", status |-> "none", code |-> 0, room |-> "", client |-> "", body |-> <<>>]

\* one more request is served
Served ==
    /\ nops < MaxOps
    /\ nops' = nops + 1

-----------------------------------------------------------------------------
(* The registry: rooms is a dict room_id -> {"password", "members"};       *)
(* members is an insertion-ordered dict, kept as the sequence of its       *)
(* entries [clientId, name, lat, lon, timestamp].                          *)

IndexOf(members, c) ==
    IF \E i \in 1..Len(members) : members[i].clientId = c
    THEN CHOOSE i \in 1..Len(members) : members[i].clientId = c
    ELSE 0

HasMember(members, c) == IndexOf(members, c) # 0

MemberOf(members, c) == members[IndexOf(members, c)]

\* members[client_id] = entry : overwrite in place or append
SetMember(members, entry) ==
    IF HasMember(members, entry.clientId)
    THEN [members EXCEPT ![IndexOf(members, entry.clientId)] = entry]
    ELSE Append(members, entry)

\* rooms[room_id] = room, on a dict that may or may not hold room_id
SetRoom(rs, r, room) ==
    [x \in (DOMAIN rs) \cup {r} |-> IF x = r THEN room ELSE rs[x]]

\* get_locations: the body of a successful listing
get_locations_body(rs, r) == rs[r].members

\* get_locations: status of the listing
get_locations_code(rs, r) == IF r \notin DOMAIN rs THEN 404 ELSE 200

-----------------------------------------------------------------------------
(* create_room                                                             *)

create_room_rooms(rs, id, password) ==
    SetRoom(rs, id, [password |-> password, members |-> <<>>])

CreateRoom(id, password) ==
    /\ Served
    /\ rooms' = create_room_rooms(rooms, id, password)
    /\ resp' = [NoResp EXCEPT !.op = "create", !.status = "created", !.code = 200,
                              !.room = id]
    /\ UNCHANGED <<now, vin, vout, conc>>

-----------------------------------------------------------------------------
(* join_room                                                               *)

\* variant: the password must match even when the room has none
join_room_status_strict(rs, r, c, n, p) ==
    IF c = "" \/ n = "" THEN "Missing clientId or name"
    ELSE IF r \notin DOMAIN rs THEN "Room not found"
    ELSE IF rs[r].password # p THEN "Invalid password"
    ELSE "joined"

\* variant: the room is looked up before the fields are validated
join_room_status_roomfirst(rs, r, c, n, p) ==
    IF r \notin DOMAIN rs THEN "Room not found"
    ELSE IF c = "" \/ n = "" THEN "Missing clientId or name"
    ELSE IF rs[r].password # "" /\ rs[r].password # p THEN "Invalid password"
    ELSE "joined"

join_room_status(rs, r, c, n, p) ==
    IF c = "" \/ n = "" THEN "Missing clientId or name"
    ELSE IF r \notin DOMAIN rs THEN "Room not found"
    ELSE IF rs[r].password # "" /\ rs[r].password # p THEN "Invalid password"
    ELSE "joined"

StatusCode(s) ==
    CASE s = "Missing clientId or name" -> 400
      [] s = "Room not found" -> 404
      [] s = "Room/member not found" -> 404
      [] s = "Invalid password" -> 403
      [] OTHER -> 200

join_room_entry(c, n) ==
    [clientId |-> c, name |-> n, lat |-> None, lon |-> None, timestamp |-> None]

\* variant: the member is inserted before the password is checked
join_room_rooms_early(rs, r, c, n, p) ==
    IF join_room_status(rs, r, c, n, p) \in {"joined", "Invalid password"}
    THEN [rs EXCEPT ![r].members = SetMember(@, join_room_entry(c, n))]
    ELSE rs

\* variant: a re-join updates the name and keeps the stored location
join_room_rooms_merge(rs, r, c, n, p) ==
    IF join_room_status(rs, r, c, n, p) = "joined"
    THEN [rs EXCEPT ![r].members =
            IF HasMember(@, c)
            THEN SetMember(@, [MemberOf(@, c) EXCEPT !.name = n])
            ELSE SetMember(@, join_room_entry(c, n))]
    ELSE rs

join_room_rooms(rs, r, c, n, p) ==
    IF join_room_status(rs, r, c, n, p) = "joined"
    THEN [rs EXCEPT ![r].members = SetMember(@, join_room_entry(c, n))]
    ELSE rs

JoinRoom(r, c, n, p) ==
    /\ Served
    /\ rooms' = join_room_rooms(rooms, r, c, n, p)
    /\ resp' = [NoResp EXCEPT !.op = "join", !.status = join_room_status(rooms, r, c, n, p),
                              !.code = StatusCode(join_room_status(rooms, r, c, n, p)),
                              !.room = r, !.client = c]
    /\ UNCHANGED <<now, vin, vout, conc>>

-----------------------------------------------------------------------------
(* push_location                                                           *)

push_location_status(rs, r, c) ==
    IF r \notin DOMAIN rs \/ ~HasMember(rs[r].members, c)
    THEN "Room/member not found"
    ELSE "location updated"

\* variant: the entry is assigned anew, without the name
push_location_entry_replace(old, lat, lon, t) ==
    [old EXCEPT !.name = "", !.lat = lat, !.lon = lon, !.timestamp = t]

\* dict.update of lat, lon, timestamp; name is kept
push_location_entry(old, lat, lon, t) ==
    [old EXCEPT !.lat = lat, !.lon = lon, !.timestamp = t]

push_location_rooms(rs, r, c, lat, lon, t) ==
    IF push_location_status(rs, r, c) = "location updated"
    THEN [rs EXCEPT ![r].members =
            SetMember(@, push_location_entry(MemberOf(@, c), lat, lon, t))]
    ELSE rs

\* time.time() is read d ticks after the handler was called
PushLocation(r, c, lat, lon, d) ==
    /\ Served
    /\ now + d <= MaxTime
    /\ rooms' = push_location_rooms(rooms, r, c, lat, lon, now + d)
    /\ now' = IF push_location_status(rooms, r, c) = "location updated" THEN now + d ELSE now
    /\ resp' = [NoResp EXCEPT !.op = "push", !.status = push_location_status(rooms, r, c),
                              !.code = StatusCode(push_location_status(rooms, r, c)),
                              !.room = r, !.client = c]
    /\ UNCHANGED <<vin, vout, conc>>

-----------------------------------------------------------------------------
(* get_locations                                                           *)

ListLocations(r) ==
    /\ Served
    /\ resp' = [NoResp EXCEPT !.op = "list",
                              !.status = IF get_locations_code(rooms, r) = 200
                                         THEN "members" ELSE "Room not found",
                              !.code = get_locations_code(rooms, r),
                              !.room = r,
                              !.body = IF get_locations_code(rooms, r) = 200
                                       THEN get_locations_body(rooms, r) ELSE <<>>]
    /\ UNCHANGED <<rooms, now, vin, vout, conc>>

\* the wall clock advances between requests
Tick ==
    /\ now < MaxTime
    /\ now' = now + 1
    /\ UNCHANGED <<rooms, nops, resp, vin, vout, conc>>

-----------------------------------------------------------------------------
(* Places provider data.  Absent marks a key the provider's JSON lacks.     *)

Absent == "<absent>"

\* a raw place record of the provider's "results" list
Place(name, hasLocation, formatted, address, hasCategories, categories) ==
    [name |-> name, hasLocation |-> hasLocation, formatted_address |-> formatted,
     address |-> address, hasCategories |-> hasCategories, categories |-> categories]

PlaceRecords ==
    { Place("A", TRUE, "X", Absent, TRUE, <<"Cafe">>),
      Place("A", TRUE, Absent, "X", FALSE, <<>>),
      Place(Absent, FALSE, Absent, Absent, TRUE, <<Absent>>),
      Place("B", TRUE, Absent, Absent, TRUE, <<>>) }

\* what requests.get + raise_for_status + json() give for one lookup
PlacesResponses ==
    {[ok |-> FALSE, results |-> <<>>]} \cup
    {[ok |-> TRUE, results |-> rs] : rs \in UNION {[1..n -> PlaceRecords] : n \in 0..MaxPlaces}}

\* place.get("name", "Unknown")
venue_name(place) == IF place.name = Absent THEN "Unknown" ELSE place.name

\* location.get("formatted_address") or location.get("address", "No address")
venue_address(place) ==
    IF place.hasLocation /\ place.formatted_address # Absent THEN place.formatted_address
    ELSE IF place.hasLocation /\ place.address # Absent THEN place.address
    ELSE "No address"

\* place.get("categories", [{}])[0] raises IndexError on an empty list
venue_raises(place) == place.hasCategories /\ place.categories = <<>>

\* place.get("categories", [{}])[0].get("name", "Uncategorized")
venue_category(place) ==
    IF ~place.hasCategories \/ place.categories[1] = Absent THEN "Uncategorized"
    ELSE place.categories[1]

venue_of(place) ==
    [name |-> venue_name(place), address |-> venue_address(place),
     category |-> venue_category(place)]

\* FoursquarePlaces.search_places: requested is whether the HTTP request was
\* made, raised whether a non-Request exception left the method
search_places(fsKey, response) ==
    IF ~fsKey THEN [requested |-> FALSE, raised |-> FALSE, venues |-> <<>>]
    ELSE IF ~response.ok THEN [requested |-> TRUE, raised |-> FALSE, venues |-> <<>>]
    ELSE IF \E k \in 1..Len(response.results) : venue_raises(response.results[k])
    THEN [requested |-> TRUE, raised |-> TRUE, venues |-> <<>>]
    ELSE [requested |-> TRUE, raised |-> FALSE,
          venues |-> [k \in 1..Len(response.results) |-> venue_of(response.results[k])]]

\* get_isochrone: the request is made only with a key; every outcome is
\* swallowed and only logged
get_isochrone_requested(orsKey) == orsKey

IsoOutcomes == {"polygon", "empty", "fail"}

\* variant: the key is never added to seen
RECURSIVE dedupe_noseen(_, _, _, _)
dedupe_noseen(all, k, seen, unique) ==
    IF k > Len(all) THEN unique
    ELSE IF <<all[k].name, all[k].address>> \in seen
         THEN dedupe_noseen(all, k + 1, seen, unique)
         ELSE dedupe_noseen(all, k + 1, seen, Append(unique, all[k]))

\* the deduplication loop of get_venues over all_results[k..]
RECURSIVE dedupe(_, _, _, _)
dedupe(all, k, seen, unique) ==
    IF k > Len(all) THEN unique
    ELSE IF <<all[k].name, all[k].address>> \in seen
         THEN dedupe(all, k + 1, seen, unique)
         ELSE dedupe(all, k + 1, seen \cup {<<all[k].name, all[k].address>>},
                     Append(unique, all[k]))

unique_results(all) == dedupe(all, 1, {}, <<>>)

-----------------------------------------------------------------------------
(* get_venues: one request, stepping at its calls to the providers          *)

\* entries of the "locations" list: a pair, a triple, and a JSON scalar
\* (which has no len())
LocEntries ==
    { [hasLen |-> TRUE, items |-> <<1, 2>>],
      [hasLen |-> TRUE, items |-> <<1, 2, 3>>],
      [hasLen |-> FALSE, items |-> <<>>] }

\* the "radius" field as sent; int() accepts only the numeral
RadiusArgs == {"1000", "abc"}

int_ok(radius) == radius \in {"1000"}

VenueInputs ==
    [radius : RadiusArgs,
     locations : UNION {[1..n -> LocEntries] : n \in 0..MaxLocs},
     fsKey : BOOLEAN, orsKey : BOOLEAN]

\* one search request: a coordinate and a triple, reachability key only
OneVenueInput ==
    [radius |-> "1000", fsKey |-> FALSE, orsKey |-> TRUE,
     locations |-> <<[hasLen |-> TRUE, items |-> <<1, 2>>], [hasLen |-> TRUE, items |-> <<1, 2, 3>>]>>]

NoVenueInput == [radius |-> "1000", locations |-> <<>>, fsKey |-> FALSE, orsKey |-> FALSE]

NoVenues == [pc |-> "idle", code |-> 0, i |-> 0, all_results |-> <<>>,
             yields |-> <<>>, calls |-> <<>>, body |-> <<>>]

VenueStart == [NoVenues EXCEPT !.pc = "start"]

\* the except Exception branch: 500
VenueError(v) == [v EXCEPT !.pc = "done", !.code = 500, !.body = <<>>]

\* request parsing up to the loop
get_venues_begin ==
    /\ vout.pc = "start"
    /\ vout' = IF int_ok(vin.radius) THEN [vout EXCEPT !.pc = "loop"] ELSE VenueError(vout)
    /\ UNCHANGED <<rooms, now, nops, resp, vin, conc>>

get_venues_calls(calls, isoReq, fs) ==
    (IF isoReq THEN Append(calls, [kind |-> "isochrone", ok |-> TRUE]) ELSE calls)
    \o (IF fs.requested THEN <<[kind |-> "places", ok |-> ~fs.failed]>> ELSE <<>>)

\* variant: the venues of a coordinate are kept only under a polygon
get_venues_iter_out_filtered(v, vi, iso, response) ==
    LET loc == vi.locations[v.i + 1]
        fs  == search_places(vi.fsKey /\ (~vi.orsKey \/ iso = "polygon"), response)
    IN  IF ~loc.hasLen THEN VenueError(v)
        ELSE IF Len(loc.items) # 2 THEN [v EXCEPT !.i = v.i + 1]
        ELSE IF fs.raised THEN VenueError(v)
             ELSE [v EXCEPT !.i = v.i + 1,
                            !.all_results = v.all_results \o fs.venues,
                            !.yields = Append(v.yields, fs.venues),
                            !.calls = get_venues_calls(v.calls, get_isochrone_requested(vi.orsKey),
                                        [requested |-> fs.requested,
                                         failed |-> fs.requested /\ ~response.ok])]

\* one iteration of "for loc in locations"; iso and response are what the two
\* providers answer if they are asked
get_venues_iter_out(v, vi, iso, response) ==
    LET loc == vi.locations[v.i + 1]
        fs  == search_places(vi.fsKey, response)
    IN  IF ~loc.hasLen THEN VenueError(v)
        ELSE IF Len(loc.items) # 2 THEN [v EXCEPT !.i = v.i + 1]
        ELSE IF fs.raised
             THEN VenueError([v EXCEPT !.calls =
                    get_venues_calls(v.calls, get_isochrone_requested(vi.orsKey),
                                     [requested |-> fs.requested, failed |-> FALSE])])
             ELSE [v EXCEPT !.i = v.i + 1,
                            !.all_results = v.all_results \o fs.venues,
                            !.yields = Append(v.yields, fs.venues),
                            !.calls = get_venues_calls(v.calls, get_isochrone_requested(vi.orsKey),
                                        [requested |-> fs.requested,
                                         failed |-> fs.requested /\ ~response.ok])]

get_venues_iter(iso, response) ==
    /\ vout.pc = "loop"
    /\ vout.i < Len(vin.locations)
    /\ vout' = get_venues_iter_out(vout, vin, iso, response)
    /\ UNCHANGED <<rooms, now, nops, resp, vin, conc>>

\* deduplicate and return
get_venues_finish ==
    /\ vout.pc = "loop"
    /\ vout.i = Len(vin.locations)
    /\ vout' = [vout EXCEPT !.pc = "done", !.code = 200,
                            !.body = unique_results(vout.all_results)]
    /\ UNCHANGED <<rooms, now, nops, resp, vin, conc>>

-----------------------------------------------------------------------------
(* Requests served concurrently (Flask serves each request on a thread of  *)
(* its own).  A handler is cut where the interpreter can switch threads:   *)
(* between its test, its look-ups and its single dict operations; one dict *)
(* operation (setitem, update, the copy of a member record) is atomic.     *)
(* conc.th is each request's position and locals, conc.gen counts the dict *)
(* objects a join has put under a member key, conc.writes logs the         *)
(* (lat, lon, timestamp) every join or push wrote.                         *)

Threads == {"t1", "t2", "t3"}

NoConc == [th |-> <<>>, gen |-> <<>>, writes |-> {}]

Request(op, r, c, n, lat, lon) ==
    [op |-> op, room |-> r, client |-> c, name |-> n, password |-> "", lat |-> lat, lon |-> lon,
     pc |-> "start", code |-> 0, ref |-> 0, t |-> None, n0 |-> 0, k |-> 0, acc |-> <<>>]

\* the joins and pushes two clients of room r1 send at the same time
ConcMutators ==
    { Request("join", "r1", "u1", "Bob", None, None),
      Request("join", "r1", "u2", "Bob", None, None),
      Request("push", "r1", "u1", "", 2, 1),
      Request("push", "r1", "u2", "", 2, 1) }

ConcLists == { Request("list", "r1", "", "", None, None) }

\* the registry the requests find: room r1, open, with members of earlier
\* joins and pushes
ConcMembers ==
    { <<>>,
      <<[clientId |-> "u1", name |-> "Ann", lat |-> 1, lon |-> 2, timestamp |-> 0]>>,
      <<[clientId |-> "u1", name |-> "Ann", lat |-> 1, lon |-> 2, timestamp |-> 0],
        [clientId |-> "u2", name |-> "Ann", lat |-> None, lon |-> None, timestamp |-> None]>> }

WriteOf(entry) ==
    [clientId |-> entry.clientId, lat |-> entry.lat, lon |-> entry.lon,
     timestamp |-> entry.timestamp]

Finish(t, code) == [conc EXCEPT !.th[t].pc = "done", !.th[t].code = code]

\* join_room up to its last test
conc_join_check(t) ==
    /\ conc.th[t].op = "join"
    /\ conc.th[t].pc = "start"
    /\ conc' = LET st == join_room_status(rooms, conc.th[t].room, conc.th[t].client,
                                          conc.th[t].name, conc.th[t].password)
               IN  IF st = "joined" THEN [conc EXCEPT !.th[t].pc = "write"]
                   ELSE Finish(t, StatusCode(st))
    /\ UNCHANGED <<rooms, now, nops, resp, vin, vout>>

\* variant: the member mapping is assigned anew with the one entry
conc_join_members_reset(members, entry) == <<entry>>

\* rooms[room_id]["members"][client_id] = {...} on the live dict
conc_join_members(members, entry) == SetMember(members, entry)

conc_join_write(t) ==
    /\ conc.th[t].op = "join"
    /\ conc.th[t].pc = "write"
    /\ rooms' = [rooms EXCEPT ![conc.th[t].room].members =
                   conc_join_members(@, join_room_entry(conc.th[t].client, conc.th[t].name))]
    /\ conc' = [Finish(t, 200) EXCEPT
                   !.gen[conc.th[t].client] = @ + 1,
                   !.writes = @ \cup {WriteOf(join_room_entry(conc.th[t].client, conc.th[t].name))}]
    /\ UNCHANGED <<now, nops, resp, vin, vout>>

\* push_location up to its test
conc_push_check(t) ==
    /\ conc.th[t].op = "push"
    /\ conc.th[t].pc = "start"
    /\ conc' = IF push_location_status(rooms, conc.th[t].room, conc.th[t].client) = "location updated"
               THEN [conc EXCEPT !.th[t].pc = "ref"]
               ELSE Finish(t, 404)
    /\ UNCHANGED <<rooms, now, nops, resp, vin, vout>>

\* rooms[room_id]["members"][client_id] is looked up and the argument of
\* update() is built, time.time() included
conc_push_ref(t) ==
    /\ conc.th[t].op = "push"
    /\ conc.th[t].pc = "ref"
    /\ conc' = [conc EXCEPT !.th[t].pc = "update", !.th[t].ref = conc.gen[conc.th[t].client],
                            !.th[t].t = now, !.th[t].k = 0]
    /\ UNCHANGED <<rooms, now, nops, resp, vin, vout>>

\* variant: three assignments in place of the one update()
push_update_batches_split == <<{"lat"}, {"lon"}, {"timestamp"}>>

\* the dict operations that write the fields: one update() of all three
push_update_batches == <<{"lat", "lon", "timestamp"}>>

push_update_apply(old, fields, lat, lon, t) ==
    LET new == push_location_entry(old, lat, lon, t)
    IN  [f \in DOMAIN old |-> IF f \in fields THEN new[f] ELSE old[f]]

\* the update reaches the registry only if the dict looked up is still the
\* one under the member key (a join puts a new dict there)
conc_push_update(t) ==
    /\ conc.th[t].op = "push"
    /\ conc.th[t].pc = "update"
    /\ LET r == conc.th[t].room
           c == conc.th[t].client
           k == conc.th[t].k + 1
           last == k = Len(push_update_batches)
       IN  /\ rooms' = IF conc.gen[c] = conc.th[t].ref
                       THEN [rooms EXCEPT ![r].members =
                               SetMember(@, push_update_apply(MemberOf(@, c), push_update_batches[k],
                                            conc.th[t].lat, conc.th[t].lon, conc.th[t].t))]
                       ELSE rooms
           /\ conc' = IF last
                      THEN [Finish(t, 200) EXCEPT
                              !.th[t].k = k,
                              !.writes = @ \cup {[clientId |-> c, lat |-> conc.th[t].lat,
                                                  lon |-> conc.th[t].lon,
                                                  timestamp |-> conc.th[t].t]}]
                      ELSE [conc EXCEPT !.th[t].k = k]
    /\ UNCHANGED <<now, nops, resp, vin, vout>>

\* get_locations up to the iterator over members.items(), which notes the
\* size of the dict
conc_list_check(t) ==
    /\ conc.th[t].op = "list"
    /\ conc.th[t].pc = "start"
    /\ conc' = IF get_locations_code(rooms, conc.th[t].room) = 200
               THEN [conc EXCEPT !.th[t].pc = "iter",
                                 !.th[t].n0 = Len(rooms[conc.th[t].room].members),
                                 !.th[t].k = 0, !.th[t].acc = <<>>]
               ELSE Finish(t, 404)
    /\ UNCHANGED <<rooms, now, nops, resp, vin, vout>>

\* one next() of the iterator: RuntimeError if the dict changed size (500),
\* the end of the list, or the copy {"clientId": cid, **info} of one member
conc_list_next(t) ==
    /\ conc.th[t].op = "list"
    /\ conc.th[t].pc = "iter"
    /\ conc' = LET members == rooms[conc.th[t].room].members
               IN  IF Len(members) # conc.th[t].n0
                   THEN [Finish(t, 500) EXCEPT !.th[t].acc = <<>>]
                   ELSE IF conc.th[t].k = conc.th[t].n0 THEN Finish(t, 200)
                   ELSE [conc EXCEPT !.th[t].k = @ + 1,
                                     !.th[t].acc = Append(@, members[conc.th[t].k + 1])]
    /\ UNCHANGED <<rooms, now, nops, resp, vin, vout>>

-----------------------------------------------------------------------------

Init ==
    /\ rooms = <<>>
    /\ now = 0
    /\ nops = 0
    /\ resp = NoResp
    /\ vin = NoVenueInput
    /\ vout = NoVenues
    /\ conc = NoConc

Next ==
    \/ \E id \in RoomIds, p \in Passwords : CreateRoom(id, p)
    \/ \E r \in RoomIds, c \in ClientArgs, n \in NameArgs, p \in PasswordArgs : JoinRoom(r, c, n, p)
    \/ \E r \in RoomIds, c \in ClientArgs, ll \in PushArgs, d \in {0, 1} :
          PushLocation(r, c, ll[1], ll[2], d)
    \/ \E r \in RoomIds : ListLocations(r)
    \/ Tick

Spec == Init /\ [][Next]_vars

\* one venue search, for every request body and every provider behaviour
InitVenues ==
    /\ rooms = <<>>
    /\ now = 0
    /\ nops = 0
    /\ resp = NoResp
    /\ vin \in VenueInputs
    /\ vout = VenueStart
    /\ conc = NoConc

NextVenues ==
    \/ get_venues_begin
    \/ \E iso \in IsoOutcomes, response \in PlacesResponses : get_venues_iter(iso, response)
    \/ get_venues_finish

SpecVenues == InitVenues /\ [][NextVenues]_vars

\* the room requests and a venue search served by the same process
InitAll ==
    /\ rooms = <<>>
    /\ now = 0
    /\ nops = 0
    /\ resp = NoResp
    /\ vin = OneVenueInput
    /\ vout = VenueStart
    /\ conc = NoConc

\* without a places key the provider is never asked: one answer stands for all
NextAll ==
    \/ Next
    \/ get_venues_begin
    \/ \E iso \in IsoOutcomes : get_venues_iter(iso, [ok |-> FALSE, results |-> <<>>])
    \/ get_venues_finish

SpecAll == InitAll /\ [][NextAll]_vars

\* two joins or pushes and a listing of room r1, served concurrently
InitConc ==
    /\ \E members \in ConcMembers :
          /\ rooms = [r \in {"r1"} |-> [password |-> "", members |-> members]]
          /\ \E a \in ConcMutators, b \in ConcMutators, l \in ConcLists :
                conc = [th |-> [t \in Threads |-> IF t = "t1" THEN a ELSE IF t = "t2" THEN b ELSE l],
                        gen |-> [c \in ClientIds |-> 0],
                        writes |-> {WriteOf(members[i]) : i \in 1..Len(members)}]
    /\ now = 0
    /\ nops = 0
    /\ resp = NoResp
    /\ vin = NoVenueInput
    /\ vout = NoVenues

NextConc ==
    \/ \E t \in Threads : conc_join_check(t)
    \/ \E t \in Threads : conc_join_write(t)
    \/ \E t \in Threads : conc_push_check(t)
    \/ \E t \in Threads : conc_push_ref(t)
    \/ \E t \in Threads : conc_push_update(t)
    \/ \E t \in Threads : conc_list_check(t)
    \/ \E t \in Threads : conc_list_next(t)
    \/ Tick

SpecConc == InitConc /\ [][NextConc]_vars

-----------------------------------------------------------------------------
(* Properties of the room registry                                         *)

FreshEntry(c, n) ==
    [clientId |-> c, name |-> n, lat |-> None, lon |-> None, timestamp |-> None]

\* the entries a listing of room r reports for client c
Listed(rs, r, c) ==
    IF get_locations_code(rs, r) # 200 THEN {}
    ELSE {get_locations_body(rs, r)[i] : i \in {j \in 1..Len(get_locations_body(rs, r)) :
                                               get_locations_body(rs, r)[j].clientId = c}}

\* C1: a join of an existing room with non-empty clientId and name succeeds
\* when the room's password is empty or equals the supplied one, and the
\* listing of the room made next holds exactly one entry for that clientId,
\* with the given name and lat, lon, timestamp absent.
C1_JoinThenList ==
    [][\A r \in RoomIds, c \in ClientIds, n \in Names, p \in PasswordArgs :
         (/\ r \in DOMAIN rooms
          /\ (rooms[r].password = "" \/ rooms[r].password = p)
          /\ JoinRoom(r, c, n, p))
         => /\ resp'.status = "joined"
            /\ resp'.code = 200
            /\ get_locations_code(rooms', r) = 200
            /\ Listed(rooms', r, c) = {FreshEntry(c, n)}]_vars

C1_Witness ==
    /\ resp.op = "join"
    /\ resp.status = "joined"
    /\ resp.room \in DOMAIN rooms
    /\ rooms[resp.room].password = "pw"
    /\ \E n \in Names : Listed(rooms, resp.room, resp.client) = {FreshEntry(resp.client, n)}

\* C2 as stated: a join of a room id that is not in the registry returns
\* RoomNotFound whatever the other arguments are, empty clientId or name
\* included.
C2_Original ==
    [][\A r \in RoomIds, c \in ClientArgs, n \in NameArgs, p \in PasswordArgs :
         (r \notin DOMAIN rooms /\ JoinRoom(r, c, n, p))
         => resp'.status = "Room not found"]_vars

\* C2 (amended): a join of a room id that is not in the registry returns
\* RoomNotFound when clientId and name are both non-empty, whatever the
\* password, and MissingField when clientId or name is empty; the registry
\* is unchanged in both cases.
C2_Amended ==
    [][\A r \in RoomIds, c \in ClientArgs, n \in NameArgs, p \in PasswordArgs :
         (r \notin DOMAIN rooms /\ JoinRoom(r, c, n, p))
         => /\ rooms' = rooms
            /\ (c # "" /\ n # "") => (resp'.status = "Room not found" /\ resp'.code = 404)
            /\ (c = "" \/ n = "") => (resp'.status = "Missing clientId or name"
                                      /\ resp'.code = 400)]_vars

C2_Witness ==
    /\ resp.op = "join"
    /\ resp.status = "Room not found"
    /\ resp.client \in ClientIds
    /\ resp.room \notin DOMAIN rooms
    /\ rooms # <<>>

\* C3: a join with non-empty clientId and name of a room whose password is
\* non-empty and differs from the supplied one returns InvalidPassword and
\* leaves the room's member mapping as it was.
C3_WrongPassword ==
    [][\A r \in RoomIds, c \in ClientIds, n \in Names, p \in PasswordArgs :
         (/\ r \in DOMAIN rooms
          /\ rooms[r].password # ""
          /\ rooms[r].password # p
          /\ JoinRoom(r, c, n, p))
         => /\ resp'.status = "Invalid password"
            /\ resp'.code = 403
            /\ r \in DOMAIN rooms'
            /\ rooms'[r].members = rooms[r].members]_vars

C3_Witness ==
    /\ resp.op = "join"
    /\ resp.status = "Invalid password"
    /\ resp.room \in DOMAIN rooms
    /\ rooms[resp.room].password = "pw"
    /\ rooms[resp.room].members # <<>>
    /\ ~HasMember(rooms[resp.room].members, resp.client)

\* a request other than a push or a join for client c of room r is served
OtherRequest(r, c) ==
    /\ nops' = nops + 1
    /\ ~ \E n \in NameArgs, p \in PasswordArgs : JoinRoom(r, c, n, p)
    /\ ~ \E ll \in PushArgs, d \in {0, 1} : PushLocation(r, c, ll[1], ll[2], d)

\* C4: after a successful push of (lat, lon) for a member, the listing of the
\* room reports that (lat, lon) and a timestamp that is present and not
\* earlier than the time of the call, and keeps reporting the member's entry
\* until a further push or join for that clientId.
C4_PushThenList ==
    [][\A r \in RoomIds, c \in ClientIds :
         /\ \A ll \in PushArgs, d \in {0, 1} :
              (PushLocation(r, c, ll[1], ll[2], d) /\ resp'.status = "location updated")
              => /\ Cardinality(Listed(rooms', r, c)) = 1
                 /\ \A m \in Listed(rooms', r, c) :
                      /\ m.lat = ll[1]
                      /\ m.lon = ll[2]
                      /\ m.timestamp # None
                      /\ m.timestamp >= now
         /\ ((\E m \in Listed(rooms, r, c) : m.timestamp # None) /\ OtherRequest(r, c))
              => Listed(rooms', r, c) = Listed(rooms, r, c)]_vars

\* C5: a successful join with a clientId that is already a member overwrites
\* the entry: the room keeps one entry for the clientId, with the new name and
\* lat, lon, timestamp absent, and the other entries are unchanged.
C5_RejoinOverwrites ==
    [][\A r \in RoomIds, c \in ClientIds, n \in Names, p \in PasswordArgs :
         (/\ r \in DOMAIN rooms
          /\ HasMember(rooms[r].members, c)
          /\ JoinRoom(r, c, n, p)
          /\ resp'.status = "joined")
         => /\ Listed(rooms', r, c) = {FreshEntry(c, n)}
            /\ Len(rooms'[r].members) = Len(rooms[r].members)
            /\ \A i \in 1..Len(rooms[r].members) :
                 rooms[r].members[i].clientId # c
                 => rooms'[r].members[i] = rooms[r].members[i]]_vars

\* the last request was a successful join of a client that had entered the
\* room before the member listed after it
C5_Witness ==
    /\ resp.op = "join"
    /\ resp.status = "joined"
    /\ resp.room \in DOMAIN rooms
    /\ Len(rooms[resp.room].members) = 2
    /\ rooms[resp.room].members[1] = FreshEntry(resp.client, "Bob")
    /\ rooms[resp.room].members[2].clientId # resp.client

LocationPresent(m) == m.lat # None /\ m.lon # None
LocationAbsent(m) == m.lat = None /\ m.lon = None

\* C6: every member of every room has its location and its timestamp either
\* both absent or both present.
C6_LocationAndTimestampTogether ==
    \A r \in DOMAIN rooms : \A i \in 1..Len(rooms[r].members) :
        \/ LocationAbsent(rooms[r].members[i]) /\ rooms[r].members[i].timestamp = None
        \/ LocationPresent(rooms[r].members[i]) /\ rooms[r].members[i].timestamp # None

\* C7: a push to a room id that is not in the registry is answered
\* RoomNotFound, a push for a clientId that is no member of an existing room
\* MemberNotFound, and the two answers differ.
C7_DistinctFailures ==
    [][\A r \in RoomIds, c \in ClientArgs, ll \in PushArgs, d \in {0, 1} :
         PushLocation(r, c, ll[1], ll[2], d)
         => /\ r \notin DOMAIN rooms => resp'.status = "Room not found"
            /\ (r \in DOMAIN rooms /\ ~HasMember(rooms[r].members, c))
                 => resp'.status = "Member not found"
            /\ \A r1 \in RoomIds \ DOMAIN rooms, r2 \in DOMAIN rooms, c2 \in ClientArgs :
                 ~HasMember(rooms[r2].members, c2)
                 => push_location_status(rooms, r1, c) # push_location_status(rooms, r2, c2)]_vars

\* C8: a create returns an id that no room of the registry has, inserts a
\* room with the given password and no members, and leaves every other room
\* as it was.
C8_CreateFresh ==
    [][\A id \in RoomIds, p \in Passwords :
         CreateRoom(id, p)
         => /\ id \notin DOMAIN rooms
            /\ rooms'[id] = [password |-> p, members |-> <<>>]
            /\ \A r \in DOMAIN rooms : r \in DOMAIN rooms' /\ rooms'[r] = rooms[r]]_vars

-----------------------------------------------------------------------------
(* Properties of the venue search                                          *)

RECURSIVE Flatten(_)
Flatten(ss) == IF ss = <<>> THEN <<>> ELSE Head(ss) \o Flatten(Tail(ss))

VenueKey(v) == <<v.name, v.address>>

\* index of the first entry of all that has the key
FirstAt(all, key) ==
    CHOOSE k \in 1..Len(all) :
        /\ VenueKey(all[k]) = key
        /\ \A j \in 1..(k - 1) : VenueKey(all[j]) # key

\* C9: the list a search returns is the stable deduplication of the
\* concatenation, in input order, of the per-coordinate results: no two
\* entries share a (name, address) pair, every pair some coordinate yielded
\* has an entry, each entry is the first venue met with its pair, and the
\* entries are in the order in which their pairs were first met.
C9_StableDedup ==
    (vout.pc = "done" /\ vout.code = 200)
    => LET all == Flatten(vout.yields)
           body == vout.body
       IN  /\ \A i, j \in 1..Len(body) : i # j => VenueKey(body[i]) # VenueKey(body[j])
           /\ \A k \in 1..Len(all) : \E j \in 1..Len(body) : VenueKey(body[j]) = VenueKey(all[k])
           /\ \A j \in 1..Len(body) :
                /\ \E k \in 1..Len(all) : VenueKey(all[k]) = VenueKey(body[j])
                /\ body[j] = all[FirstAt(all, VenueKey(body[j]))]
           /\ \A i, j \in 1..Len(body) :
                i < j => FirstAt(all, VenueKey(body[i])) < FirstAt(all, VenueKey(body[j]))

\* two coordinates both yielded {A, X}, around a venue with another pair
C9_Witness ==
    /\ vout.pc = "done"
    /\ vout.code = 200
    /\ Len(vout.yields) = 2
    /\ \A y \in 1..2 : \E k \in 1..Len(vout.yields[y]) :
          VenueKey(vout.yields[y][k]) = <<"A", "X">>
    /\ Len(vout.body) = 2
    /\ Len(Flatten(vout.yields)) > 2
    /\ Cardinality({k \in 1..Len(vout.body) : VenueKey(vout.body[k]) = <<"A", "X">>}) = 1

\* the request is a well-formed one: a numeric radius and list entries only
WellFormedSearch == int_ok(vin.radius) /\ \A k \in 1..Len(vin.locations) : vin.locations[k].hasLen

PlacesFailed(calls) == {k \in 1..Len(calls) : calls[k].kind = "places" /\ ~calls[k].ok}
PlacesAnswered(calls) == {k \in 1..Len(calls) : calls[k].kind = "places" /\ calls[k].ok}

\* C10: when lookups of the places provider fail for some coordinates of a
\* search, the search still completes with a list, that holds every venue
\* the other coordinates yielded, and is empty when all lookups failed.
C10_FailuresAbsorbed ==
    (vout.pc = "done" /\ WellFormedSearch /\ PlacesFailed(vout.calls) # {})
    => /\ vout.code = 200
       /\ \A y \in 1..Len(vout.yields) : \A k \in 1..Len(vout.yields[y]) :
            \E j \in 1..Len(vout.body) : VenueKey(vout.body[j]) = VenueKey(vout.yields[y][k])
       /\ PlacesAnswered(vout.calls) = {} => vout.body = <<>>

\* an entry of the "locations" list that is no two-element list
Malformed(loc) == ~(loc.hasLen /\ Len(loc.items) = 2)

\* C11: an entry that is not a well-formed pair is skipped: the loop moves on
\* to the next entry without a provider call, without failing the search and
\* without touching the results collected, so that the search ends as it
\* would without the entry.
C11_MalformedSkipped ==
    [][\A iso \in IsoOutcomes, response \in PlacesResponses :
         (/\ vout.pc = "loop"
          /\ vout.i < Len(vin.locations)
          /\ Malformed(vin.locations[vout.i + 1])
          /\ get_venues_iter(iso, response))
         => vout' = [vout EXCEPT !.i = vout.i + 1]]_vars

\* what an iteration leaves for the rest of the search and for its result
VenueOutcome(v) ==
    [pc |-> v.pc, code |-> v.code, i |-> v.i, all_results |-> v.all_results,
     yields |-> v.yields, body |-> v.body]

PlacesCalls(calls) == SelectSeq(calls, LAMBDA c : c.kind = "places")

\* C12: the answer of the reachability provider has no effect on the search:
\* whatever an iteration does under one answer (polygon, empty, failure) it
\* does under every other one and with the reachability key present or
\* absent -- same results collected, same places lookups, same abort or not.
C12_ReachabilityIgnored ==
    [][\A iso \in IsoOutcomes, response \in PlacesResponses :
         get_venues_iter(iso, response)
         => \A iso2 \in IsoOutcomes, key2 \in BOOLEAN :
              LET other == get_venues_iter_out(vout, [vin EXCEPT !.orsKey = key2], iso2, response)
              IN  /\ VenueOutcome(other) = VenueOutcome(vout')
                  /\ VenueOutcome(other).code = 500
                     \/ PlacesCalls(other.calls) = PlacesCalls(vout'.calls)]_vars

\* a search with the reachability provider asked for two coordinates that
\* returned venues
C12_Witness ==
    /\ vout.pc = "done"
    /\ vout.code = 200
    /\ vin.orsKey
    /\ Len(SelectSeq(vout.calls, LAMBDA c : c.kind = "isochrone")) = 2
    /\ Len(vout.body) = 2

-----------------------------------------------------------------------------
(* Properties of concurrent requests                                       *)

Succeeded(t) == conc.th[t].pc = "done" /\ conc.th[t].code = 200

\* what a join or push request that succeeded leaves under its member key
EffectOf(t) ==
    IF conc.th[t].op = "join"
    THEN WriteOf(join_room_entry(conc.th[t].client, conc.th[t].name))
    ELSE [clientId |-> conc.th[t].client, lat |-> conc.th[t].lat, lon |-> conc.th[t].lon,
          timestamp |-> conc.th[t].t]

\* C13: when a join or push of one clientId and a join or push of another
\* clientId of the same room ran concurrently and both succeeded, the room
\* holds both members, each with what its request wrote.
C13_NoLostUpdate ==
    \A t1, t2 \in DOMAIN conc.th :
        (/\ t1 # t2
         /\ conc.th[t1].op \in {"join", "push"}
         /\ conc.th[t2].op \in {"join", "push"}
         /\ conc.th[t1].room = conc.th[t2].room
         /\ conc.th[t1].client # conc.th[t2].client
         /\ Succeeded(t1)
         /\ Succeeded(t2))
        => \A t \in {t1, t2} :
             /\ HasMember(rooms[conc.th[t].room].members, conc.th[t].client)
             /\ WriteOf(MemberOf(rooms[conc.th[t].room].members, conc.th[t].client)) = EffectOf(t)

\* a join of a new member and a push of another member both succeeded, the
\* push having read the clock after a tick
C13_Witness ==
    /\ conc.th # <<>>
    /\ \E t1, t2 \in DOMAIN conc.th :
          /\ conc.th[t1].op = "join" /\ conc.th[t1].client = "u2" /\ Succeeded(t1)
          /\ conc.th[t2].op = "push" /\ conc.th[t2].client = "u1" /\ Succeeded(t2)
          /\ conc.th[t2].t = 1
          /\ Len(rooms["r1"].members) = 2

\* C14: every member record a listing has copied, while joins and pushes of
\* the room run, carries a (lat, lon, timestamp) that one single join or one
\* single push wrote.
C14_ConsistentRecords ==
    \A t \in DOMAIN conc.th :
        conc.th[t].op = "list"
        => \A i \in 1..Len(conc.th[t].acc) : WriteOf(conc.th[t].acc[i]) \in conc.writes

\* a listing that returned a record a concurrent push had just written,
\* next to a member that was written again after its record was copied
C14_Witness ==
    /\ conc.th # <<>>
    /\ \E t \in DOMAIN conc.th :
          /\ conc.th[t].op = "list"
          /\ Succeeded(t)
          /\ Len(conc.th[t].acc) = 2
          /\ \E i \in 1..2 : conc.th[t].acc[i].lat = 2
          /\ \E i \in 1..2 : conc.th[t].acc[i] # rooms["r1"].members[i]

\* C15: a listing of a room that exists ends with the member list, never with
\* an internal error, also when a join adds a member while it iterates.
C15_ListNeverFails ==
    \A t \in DOMAIN conc.th :
        (/\ conc.th[t].op = "list"
         /\ conc.th[t].pc = "done"
         /\ conc.th[t].room \in DOMAIN rooms)
        => conc.th[t].code = 200

-----------------------------------------------------------------------------
(* Frame properties of the room registry                                   *)

\* C16: the registry only grows: across every step, every room id present
\* before is present after with the same password, and every member of a
\* room before is a member of it after.
C16_RegistryOnlyGrows ==
    [][\A r \in DOMAIN rooms :
         /\ r \in DOMAIN rooms'
         /\ rooms'[r].password = rooms[r].password
         /\ \A i \in 1..Len(rooms[r].members) :
              HasMember(rooms'[r].members, rooms[r].members[i].clientId)]_vars

\* C17: a successful push for a member changes the lat, lon and timestamp of
\* that member only: its name and place in the mapping, every other member
\* of the room, every other room and every password are as before.
C17_PushFrame ==
    [][(nops' = nops + 1 /\ resp'.op = "push" /\ resp'.status = "location updated")
         => /\ DOMAIN rooms' = DOMAIN rooms
            /\ \A x \in DOMAIN rooms :
                 /\ rooms'[x].password = rooms[x].password
                 /\ Len(rooms'[x].members) = Len(rooms[x].members)
                 /\ \A i \in 1..Len(rooms[x].members) :
                      IF x = resp'.room /\ rooms[x].members[i].clientId = resp'.client
                      THEN /\ rooms'[x].members[i].clientId = resp'.client
                           /\ rooms'[x].members[i].name = rooms[x].members[i].name
                      ELSE rooms'[x].members[i] = rooms[x].members[i]]_vars

\* a push just moved the second of two members of a room
C17_Witness ==
    /\ resp.op = "push"
    /\ resp.status = "location updated"
    /\ resp.room \in DOMAIN rooms
    /\ Len(rooms[resp.room].members) = 2
    /\ rooms[resp.room].members[2].clientId = resp.client
    /\ rooms[resp.room].members[2].lat = 2
    /\ rooms[resp.room].members[2].name = "Bob"
    /\ rooms[resp.room].members[1].timestamp = None

\* a step of the venue search: the only steps that move vout
VenueStep == vout' # vout

\* C18: a room request that is answered with a failure (a join with 400, 404
\* or 403, a push with 404, a listing with 404) leaves the whole registry as
\* it was, and so does every listing and every step of a venue search.
C18_FailuresChangeNothing ==
    [][/\ (nops' = nops + 1 /\ resp'.code # 200) => rooms' = rooms
       /\ (nops' = nops + 1 /\ resp'.op = "list") => rooms' = rooms
       /\ VenueStep => rooms' = rooms]_vars

\* a join refused for its password in a room that has a member, after the
\* venue search has ended
C18_Witness ==
    /\ resp.op = "join"
    /\ resp.code = 403
    /\ resp.room \in DOMAIN rooms
    /\ Len(rooms[resp.room].members) = 1
    /\ ~HasMember(rooms[resp.room].members, resp.client)
    /\ vout.pc = "done"

-----------------------------------------------------------------------------
(* Properties of the provider clients                                      *)

\* the venue the contract gives for a place record: every field that the
\* provider data lacks is its sentinel
ExpectedVenue(place) ==
    [name |-> IF place.name # Absent THEN place.name ELSE "Unknown",
     address |-> IF place.hasLocation /\ place.formatted_address # Absent
                 THEN place.formatted_address
                 ELSE IF place.hasLocation /\ place.address # Absent THEN place.address
                 ELSE "No address",
     category |-> IF place.hasCategories /\ Len(place.categories) > 0
                     /\ place.categories[1] # Absent
                  THEN place.categories[1]
                  ELSE "Uncategorized"]

\* C19: every place record of a successful provider response gives a venue
\* with name, address and category, each its sentinel when the record lacks
\* the field -- a missing or an empty category list included -- and the
\* search does not fail on it.
C19_SentinelsForAbsentFields ==
    [][\A iso \in IsoOutcomes, response \in PlacesResponses :
         (/\ vout.pc = "loop"
          /\ vout.i < Len(vin.locations)
          /\ ~Malformed(vin.locations[vout.i + 1])
          /\ vin.fsKey
          /\ response.ok
          /\ get_venues_iter(iso, response))
         => /\ vout'.code # 500
            /\ vout'.yields = Append(vout.yields,
                 [k \in 1..Len(response.results) |-> ExpectedVenue(response.results[k])])]_vars

IsochroneCalls(calls) == SelectSeq(calls, LAMBDA c : c.kind = "isochrone")

\* C20: without the places key a search returns the empty list, whatever the
\* locations, and asks the places provider nothing; without the reachability
\* key it asks the reachability provider nothing.
C20_MissingKeys ==
    (vout.pc = "done" /\ int_ok(vin.radius))
    => /\ ~vin.fsKey => (vout.code = 200 /\ vout.body = <<>> /\ PlacesCalls(vout.calls) = <<>>)
       /\ ~vin.orsKey => IsochroneCalls(vout.calls) = <<>>

====
